---- MODULE Spec2Model ----
\* A model of src/src/App.tsx: the App component's state, its event handlers,
\* the fetch-on-change effect, the asynchronous continuation of fetchData and
\* the pagination-range computation.
EXTENDS Integers, Sequences, FiniteSets, TLC

\* ------------------------------------------------------------------ bounds
\* Largest info.pages the upstream API answers with under Spec.
MaxPages == 3
\* Number of fetchData calls a behaviour of the model makes at most.
MaxRequests == 3
\* Largest totalPages / currentPage the pagination specification starts from.
MaxTotalPages == 12

\* --------------------------------------------------------------- constants
\* null, for the state that holds an object or null.
Null == [null |-> TRUE]
\* null, for the state that holds a string or null.
NoError == "null"

BASE_URL == "https://rickandmortyapi.com/api"

ENDPOINTS ==
    << [id |-> "character", label |-> "Characters"],
       [id |-> "location", label |-> "Locations"],
       [id |-> "episode", label |-> "Episodes"] >>

EndpointIds == {ENDPOINTS[i].id : i \in DOMAIN ENDPOINTS}

\* Texts are sequences of one-character strings. The search terms a user types.
SearchTerms == {<< >>, <<"r">>, <<"r", " ">>}

\* The results.length of the bodies the upstream API answers with: none, a page.
ResultCounts == {0, 20}

\* HTTP statuses for which response.ok is false.
FailStatuses == {404, 500}

\* What fetch() and response.json() reject with: Error instances with a message.
NetworkError == [isError |-> TRUE, message |-> "Failed to fetch"]
SyntaxError == [isError |-> TRUE, message |-> "Unexpected token"]

STATUS_STYLES ==
    (<<"a", "l", "i", "v", "e">> :> "bg-emerald-500 shadow-emerald-500/30")
    @@ (<<"d", "e", "a", "d">> :> "bg-red-500 shadow-red-500/30")
    @@ (<<"u", "n", "k", "n", "o", "w", "n">>
            :> "bg-gray-500 shadow-gray-500/30")

\* What an object literal inherits under an all-lower-case key: the properties
\* of Object.prototype (constructor, __proto__), as a template literal prints
\* them.
ObjectPrototype ==
    (<<"c", "o", "n", "s", "t", "r", "u", "c", "t", "o", "r">>
         :> "function Object() { [native code] }")
    @@ (<<"_", "_", "p", "r", "o", "t", "o", "_", "_">> :> "[object Object]")

UpperCase ==
    <<"A", "B", "C", "D", "E", "F", "G", "H", "I", "J", "K", "L", "M",
      "N", "O", "P", "Q", "R", "S", "T", "U", "V", "W", "X", "Y", "Z">>
LowerCase ==
    <<"a", "b", "c", "d", "e", "f", "g", "h", "i", "j", "k", "l", "m",
      "n", "o", "p", "q", "r", "s", "t", "u", "v", "w", "x", "y", "z">>

\* The class not yet computed: the item has not been rendered.
Unrendered == "unrendered"
NoCard == [item |-> [name |-> "none"], statusClass |-> Unrendered]

VARIABLES
    activeEndpoint,   \* useState("character")
    data,             \* useState<APIResponse | null>(null)
    currentPage,      \* useState(1)
    isLoading,        \* useState(false)
    error,            \* useState<string | null>(null)
    searchTerm,       \* useState("")
    requests,         \* the fetchData calls suspended at an await
    latest,           \* the most recent fetchData call, Null before the first
    last,             \* the handler or continuation that ran last
    card              \* a result item and the status class rendered for it

vars ==
    << activeEndpoint, data, currentPage, isLoading, error, searchTerm,
       requests, latest, last, card >>

\* ------------------------------------------------------------ pure helpers
Max(a, b) == IF a >= b THEN a ELSE b
Min(a, b) == IF a <= b THEN a ELSE b

\* encodeURIComponent on the alphabet of SearchTerms: unreserved characters
\* stay, a space becomes %20.
EncodeChar(c) == IF c = " " THEN <<"%", "2", "0">> ELSE <<c>>

RECURSIVE encodeURIComponent(_)
encodeURIComponent(s) ==
    IF s = << >> THEN << >>
    ELSE EncodeChar(Head(s)) \o encodeURIComponent(Tail(s))

\* const searchParam = search ? `&name=${encodeURIComponent(search)}` : "";
SearchParam(search) ==
    IF search # << >> THEN <<"&name=">> \o encodeURIComponent(search) ELSE << >>

\* const url = `${BASE_URL}/${endpoint}?page=${page}${searchParam}`;
Url(endpoint, page, search) ==
    [base |-> BASE_URL, endpoint |-> endpoint, page |-> page,
     searchParam |-> SearchParam(search)]

\* A fetchData call: its arguments, the URL it asks for, and the await it is
\* suspended at ("fetch" or "json").
Request(id, endpoint, page, search) ==
    [id |-> id, endpoint |-> endpoint, page |-> page, search |-> search,
     url |-> Url(endpoint, page, search), stage |-> "fetch"]

\* The JSON body the upstream API answers a URL with.
Body(url, pages, n) == [url |-> url, info |-> [pages |-> pages], results |-> n]

\* err instanceof Error ? err.message : "An error occurred"
ErrorMessage(err) == IF err.isError THEN err.message ELSE "An error occurred"

\* new Error(`Failed to fetch: ${response.status}`)
StatusError(status) ==
    [isError |-> TRUE, message |-> "Failed to fetch: " \o ToString(status)]

\* String.prototype.toLowerCase on texts of ASCII characters.
LowerChar(c) ==
    IF \E i \in DOMAIN UpperCase : UpperCase[i] = c
    THEN LowerCase[CHOOSE i \in DOMAIN UpperCase : UpperCase[i] = c]
    ELSE c
toLowerCase(s) == [i \in DOMAIN s |-> LowerChar(s[i])]

\* item.status?.toLowerCase(): undefined for an item without status.
LoweredStatus(item) ==
    IF "status" \in DOMAIN item
    THEN [defined |-> TRUE, value |-> toLowerCase(item.status)]
    ELSE [defined |-> FALSE]

\* The property key a value is converted to: undefined reads "undefined".
PropertyKey(v) ==
    IF v.defined THEN v.value
    ELSE <<"u", "n", "d", "e", "f", "i", "n", "e", "d">>

\* obj[key] on an object literal: an own property, else an inherited one,
\* else undefined.
Get(obj, key) ==
    IF key \in DOMAIN obj THEN [defined |-> TRUE, value |-> obj[key]]
    ELSE IF key \in DOMAIN ObjectPrototype
         THEN [defined |-> TRUE, value |-> ObjectPrototype[key]]
    ELSE [defined |-> FALSE]

\* STATUS_STYLES[item.status?.toLowerCase()] || STATUS_STYLES.unknown
StatusClass(item) ==
    LET style == Get(STATUS_STYLES, PropertyKey(LoweredStatus(item))) IN
    IF style.defined THEN style.value
    ELSE STATUS_STYLES[<<"u", "n", "k", "n", "o", "w", "n">>]

\* const totalPages = data?.info?.pages || 1;
TotalPagesOf(d) == IF d = Null \/ d.info.pages = 0 THEN 1 ELSE d.info.pages
totalPages == TotalPagesOf(data)

\* The "ellipsis" page marker; page numbers are the positive integers.
Ellipsis == 0

\* for (let i = lo; i <= hi; i++) range.push(i);
RECURSIVE PushPages(_, _, _)
PushPages(range, i, hi) ==
    IF i <= hi THEN PushPages(Append(range, i), i + 1, hi) ELSE range

\* Mutant: the ellipsis sets in one page early (totalPages > 6).
PaginationRange_EarlyEllipsis(cp, tp) ==
    LET showEllipsis == tp > 6 IN
    IF ~showEllipsis THEN PushPages(<< >>, 1, tp)
    ELSE IF cp <= 4
         THEN Append(Append(PushPages(<< >>, 1, 5), Ellipsis), tp)
    ELSE IF cp >= tp - 3
         THEN PushPages(<<1, Ellipsis>>, tp - 4, tp)
    ELSE Append(Append(PushPages(<<1, Ellipsis>>, cp - 1, cp + 1),
                       Ellipsis), tp)

\* Mutant: the end shape starts one page late (currentPage >= totalPages - 2).
PaginationRange_LateEnd(cp, tp) ==
    LET showEllipsis == tp > 7 IN
    IF ~showEllipsis THEN PushPages(<< >>, 1, tp)
    ELSE IF cp <= 4
         THEN Append(Append(PushPages(<< >>, 1, 5), Ellipsis), tp)
    ELSE IF cp >= tp - 2
         THEN PushPages(<<1, Ellipsis>>, tp - 4, tp)
    ELSE Append(Append(PushPages(<<1, Ellipsis>>, cp - 1, cp + 1),
                       Ellipsis), tp)

\* Mutant: the start shape ends two pages early (currentPage <= 2).
PaginationRange_NarrowStart(cp, tp) ==
    LET showEllipsis == tp > 7 IN
    IF ~showEllipsis THEN PushPages(<< >>, 1, tp)
    ELSE IF cp <= 2
         THEN Append(Append(PushPages(<< >>, 1, 5), Ellipsis), tp)
    ELSE IF cp >= tp - 3
         THEN PushPages(<<1, Ellipsis>>, tp - 4, tp)
    ELSE Append(Append(PushPages(<<1, Ellipsis>>, cp - 1, cp + 1),
                       Ellipsis), tp)

\* The useMemo body of paginationRange, as a function of its two dependencies.
PaginationRange(cp, tp) ==
    LET showEllipsis == tp > 7 IN
    IF ~showEllipsis THEN PushPages(<< >>, 1, tp)
    ELSE IF cp <= 4
         THEN Append(Append(PushPages(<< >>, 1, 5), Ellipsis), tp)
    ELSE IF cp >= tp - 3
         THEN PushPages(<<1, Ellipsis>>, tp - 4, tp)
    ELSE Append(Append(PushPages(<<1, Ellipsis>>, cp - 1, cp + 1),
                       Ellipsis), tp)

paginationRange == PaginationRange(currentPage, totalPages)

\* The numbered buttons the pagination control renders.
PageButtons ==
    {i \in DOMAIN paginationRange : paginationRange[i] # Ellipsis}

\* Which branch of the render is on screen.
View ==
    IF error # NoError THEN "error"
    ELSE IF isLoading THEN "loading"
    ELSE IF data = Null \/ data.results = 0 THEN "empty"
    ELSE "results"

\* Mutant: the header is rendered in the error view too.
HeaderShown_Always == TRUE

HeaderShown == error = NoError
SearchShown == HeaderShown /\ activeEndpoint = "character"
PaginationShown == View = "results" /\ totalPages > 1

NextId == IF latest = Null THEN 1 ELSE latest.id + 1

Step(op, arg, req) == [op |-> op, arg |-> arg, req |-> req]

\* -------------------------------------------------------------------- Init
Init ==
    /\ activeEndpoint = "character"
    /\ data = Null
    /\ currentPage = 1
    /\ isLoading = FALSE
    /\ error = NoError
    /\ searchTerm = << >>
    /\ requests = {}
    /\ latest = Null
    /\ last = Step("init", Null, 0)
    /\ card = NoCard

\* ----------------------------------------------------------------- actions
\* fetchData up to its first await: setIsLoading(true); setError(null); fetch(url).
FetchData(endpoint, page, search) ==
    /\ NextId <= MaxRequests
    /\ isLoading' = TRUE
    /\ error' = NoError
    /\ latest' = Request(NextId, endpoint, page, search)
    /\ requests' = requests \cup {Request(NextId, endpoint, page, search)}
    /\ UNCHANGED data

\* Mutant: the effect without its dependency list runs after every render.
UseEffect_Always(endpoint, page, search) ==
    FetchData(endpoint, page, search)

\* The effect after a render that committed (endpoint, page, search): it runs
\* when one of its dependencies differs from the previous render's.
UseEffect(endpoint, page, search) ==
    IF <<endpoint, page, search>> # <<activeEndpoint, currentPage, searchTerm>>
    THEN FetchData(endpoint, page, search)
    ELSE UNCHANGED <<data, isLoading, error, requests, latest>>

Issued(endpoint, page, search) ==
    IF <<endpoint, page, search>> # <<activeEndpoint, currentPage, searchTerm>>
    THEN NextId ELSE 0

\* The first render's effect.
Mount ==
    /\ latest = Null
    /\ FetchData(activeEndpoint, currentPage, searchTerm)
    /\ UNCHANGED card
    /\ last' = Step("mount", Null, NextId)
    /\ UNCHANGED <<activeEndpoint, currentPage, searchTerm>>

\* Mutant: handleEndpointChange without setCurrentPage(1).
handleEndpointChange_KeepPage(endpointId) ==
    /\ latest # Null
    /\ HeaderShown
    /\ activeEndpoint' = endpointId
    /\ searchTerm' = << >>
    /\ UNCHANGED currentPage
    /\ UseEffect(endpointId, currentPage, << >>)
    /\ UNCHANGED card
    /\ last' = Step("endpoint", endpointId,
                    Issued(endpointId, currentPage, << >>))

\* Mutant: handleEndpointChange without setSearchTerm("").
handleEndpointChange_KeepSearch(endpointId) ==
    /\ latest # Null
    /\ HeaderShown
    /\ activeEndpoint' = endpointId
    /\ currentPage' = 1
    /\ UNCHANGED searchTerm
    /\ UseEffect(endpointId, 1, searchTerm)
    /\ UNCHANGED card
    /\ last' = Step("endpoint", endpointId, Issued(endpointId, 1, searchTerm))

handleEndpointChange(endpointId) ==
    /\ latest # Null
    /\ HeaderShown
    /\ activeEndpoint' = endpointId
    /\ currentPage' = 1
    /\ searchTerm' = << >>
    /\ UseEffect(endpointId, 1, << >>)
    /\ UNCHANGED card
    /\ last' = Step("endpoint", endpointId, Issued(endpointId, 1, << >>))

\* Mutant: handleSearch without setCurrentPage(1).
handleSearch_KeepPage(term) ==
    /\ latest # Null
    /\ SearchShown
    /\ searchTerm' = term
    /\ UNCHANGED <<activeEndpoint, currentPage>>
    /\ UseEffect(activeEndpoint, currentPage, term)
    /\ UNCHANGED card
    /\ last' = Step("search", term, Issued(activeEndpoint, currentPage, term))

handleSearch(term) ==
    /\ latest # Null
    /\ SearchShown
    /\ searchTerm' = term
    /\ currentPage' = 1
    /\ UNCHANGED activeEndpoint
    /\ UseEffect(activeEndpoint, 1, term)
    /\ UNCHANGED card
    /\ last' = Step("search", term, Issued(activeEndpoint, 1, term))

\* setCurrentPage(page) from one of the pagination buttons, and the effect.
SetCurrentPage(op, page) ==
    /\ currentPage' = page
    /\ UNCHANGED <<activeEndpoint, searchTerm>>
    /\ UseEffect(activeEndpoint, page, searchTerm)
    /\ UNCHANGED card
    /\ last' = Step(op, page, Issued(activeEndpoint, page, searchTerm))

ClickPrevious ==
    /\ PaginationShown
    /\ currentPage # 1
    /\ SetCurrentPage("previous", Max(currentPage - 1, 1))

ClickNext ==
    /\ PaginationShown
    /\ currentPage # totalPages
    /\ SetCurrentPage("next", Min(currentPage + 1, totalPages))

ClickPage(i) ==
    /\ PaginationShown
    /\ i \in PageButtons
    /\ SetCurrentPage("page", paginationRange[i])

\* Mutant: Try Again asks for the first page.
Retry_FirstPage ==
    /\ error # NoError
    /\ FetchData(activeEndpoint, 1, searchTerm)
    /\ UNCHANGED card
    /\ last' = Step("retry", Null, NextId)
    /\ UNCHANGED <<activeEndpoint, currentPage, searchTerm>>

\* The Try Again button of the error view.
Retry ==
    /\ error # NoError
    /\ FetchData(activeEndpoint, currentPage, searchTerm)
    /\ UNCHANGED card
    /\ last' = Step("retry", Null, NextId)
    /\ UNCHANGED <<activeEndpoint, currentPage, searchTerm>>

\* Mutant: the catch block without setData(null).
Catch_KeepData(r, err) ==
    /\ error' = ErrorMessage(err)
    /\ isLoading' = FALSE
    /\ requests' = requests \ {r}
    /\ UNCHANGED card
    /\ last' = Step("failure", err, r.id)
    /\ UNCHANGED <<activeEndpoint, data, currentPage, searchTerm, latest>>

\* catch (err) { setError(...); setData(null); } finally { setIsLoading(false); }
Catch(r, err) ==
    /\ error' = ErrorMessage(err)
    /\ data' = Null
    /\ isLoading' = FALSE
    /\ requests' = requests \ {r}
    /\ UNCHANGED card
    /\ last' = Step("failure", err, r.id)
    /\ UNCHANGED <<activeEndpoint, currentPage, searchTerm, latest>>

\* await fetch(url) resolves with response.ok: on to await response.json().
FetchOk(r) ==
    /\ r \in requests
    /\ r.stage = "fetch"
    /\ requests' = (requests \ {r}) \cup {[r EXCEPT !.stage = "json"]}
    /\ UNCHANGED card
    /\ last' = Step("ok", Null, r.id)
    /\ UNCHANGED <<activeEndpoint, data, currentPage, isLoading, error,
                   searchTerm, latest>>

\* await fetch(url) resolves with a non-2xx status: throw.
FetchNotOk(r, status) ==
    /\ r \in requests
    /\ r.stage = "fetch"
    /\ Catch(r, StatusError(status))

\* await fetch(url) rejects.
FetchReject(r) ==
    /\ r \in requests
    /\ r.stage = "fetch"
    /\ Catch(r, NetworkError)

\* Mutant: the success path drops the body of a superseded call.
JsonResolve_IgnoreStale(r, result) ==
    /\ r \in requests
    /\ r.stage = "json"
    /\ data' = IF r.id = latest.id THEN result ELSE data
    /\ isLoading' = FALSE
    /\ requests' = requests \ {r}
    /\ UNCHANGED card
    /\ last' = Step("success", result, r.id)
    /\ UNCHANGED <<activeEndpoint, currentPage, error, searchTerm, latest>>

\* Mutant: the success path without the finally block.
JsonResolve_NoFinally(r, result) ==
    /\ r \in requests
    /\ r.stage = "json"
    /\ data' = result
    /\ requests' = requests \ {r}
    /\ UNCHANGED card
    /\ last' = Step("success", result, r.id)
    /\ UNCHANGED <<activeEndpoint, currentPage, isLoading, error, searchTerm,
                   latest>>

\* await response.json() resolves: setData(result); finally setIsLoading(false).
JsonResolve(r, result) ==
    /\ r \in requests
    /\ r.stage = "json"
    /\ data' = result
    /\ isLoading' = FALSE
    /\ requests' = requests \ {r}
    /\ UNCHANGED card
    /\ last' = Step("success", result, r.id)
    /\ UNCHANGED <<activeEndpoint, currentPage, error, searchTerm, latest>>

\* await response.json() rejects.
JsonReject(r) ==
    /\ r \in requests
    /\ r.stage = "json"
    /\ Catch(r, SyntaxError)

\* The bodies the upstream API may answer request r with.
Bodies(r) == {Body(r.url, p, n) : p \in 1..MaxPages, n \in ResultCounts}

Next ==
    \/ Mount
    \/ \E e \in EndpointIds : handleEndpointChange(e)
    \/ \E t \in SearchTerms : handleSearch(t)
    \/ ClickPrevious
    \/ ClickNext
    \/ \E i \in 1..7 : ClickPage(i)
    \/ Retry
    \/ \E r \in requests : FetchOk(r)
    \/ \E r \in requests : \E s \in FailStatuses : FetchNotOk(r, s)
    \/ \E r \in requests : FetchReject(r)
    \/ \E r \in requests : \E b \in Bodies(r) : JsonResolve(r, b)
    \/ \E r \in requests : JsonReject(r)

Spec == Init /\ [][Next]_vars

\* ------------------------------------- the paged-upstream specification
\* The bodies of an upstream API that answers 200 only for a page it has:
\* info.pages is at least the page asked for.
PagedBodies(r) == {b \in Bodies(r) : b.info.pages >= r.url.page}

NextPaged ==
    \/ Mount
    \/ \E e \in EndpointIds : handleEndpointChange(e)
    \/ \E t \in SearchTerms : handleSearch(t)
    \/ ClickPrevious
    \/ ClickNext
    \/ \E i \in 1..7 : ClickPage(i)
    \/ Retry
    \/ \E r \in requests : FetchOk(r)
    \/ \E r \in requests : \E st \in FailStatuses : FetchNotOk(r, st)
    \/ \E r \in requests : FetchReject(r)
    \/ \E r \in requests : \E b \in PagedBodies(r) : JsonResolve(r, b)
    \/ \E r \in requests : JsonReject(r)

SpecPaged == Init /\ [][NextPaged]_vars

\* --------------------------------------- the status-class specification
UpperChar(c) ==
    IF \E i \in DOMAIN LowerCase : LowerCase[i] = c
    THEN UpperCase[CHOOSE i \in DOMAIN LowerCase : LowerCase[i] = c]
    ELSE c

\* Every upper/lower-case spelling of a text.
Spellings(k) ==
    {[i \in DOMAIN k |-> IF i \in up THEN UpperChar(k[i]) ELSE k[i]] :
         up \in SUBSET DOMAIN k}

\* The status values rendered: every spelling of the three known ones, the
\* empty text, other words, and two all-lower-case names every object has.
Statuses ==
    UNION {Spellings(k) : k \in DOMAIN STATUS_STYLES}
    \cup { << >>,
           <<"a", "l", "i", "e", "n">>,
           <<"a", "l", "i", "v", "e", " ">>,
           <<"u", "n", "d", "e", "f", "i", "n", "e", "d">>,
           <<"c", "o", "n", "s", "t", "r", "u", "c", "t", "o", "r">>,
           <<"_", "_", "p", "r", "o", "t", "o", "_", "_">> }

\* The result items rendered: one per status value and one without status.
Items ==
    {[name |-> "item", status |-> st] : st \in Statuses}
    \cup {[name |-> "item"]}

InitStatus ==
    /\ activeEndpoint = "character"
    /\ data = Null
    /\ currentPage = 1
    /\ isLoading = FALSE
    /\ error = NoError
    /\ searchTerm = << >>
    /\ requests = {}
    /\ latest = Null
    /\ last = Step("init", Null, 0)
    /\ \E item \in Items : card = [item |-> item, statusClass |-> Unrendered]

\* renderItem(item) in the character view: the class of the status indicator.
renderItem ==
    /\ activeEndpoint = "character"
    /\ card.statusClass = Unrendered
    /\ card' = [card EXCEPT !.statusClass = StatusClass(card.item)]
    /\ UNCHANGED <<activeEndpoint, data, currentPage, isLoading, error,
                   searchTerm, requests, latest, last>>

NextStatus == renderItem

SpecStatus == InitStatus /\ [][NextStatus]_vars

\* ------------------------------------------- the pagination specification
\* A loaded page of characters: any current page against any page count, the
\* pagination control on screen. The steps are the control's buttons.
InitRange ==
    /\ activeEndpoint = "character"
    /\ searchTerm = << >>
    /\ currentPage \in 1..MaxTotalPages
    /\ latest = Request(1, activeEndpoint, currentPage, searchTerm)
    /\ \E tp \in 1..MaxTotalPages :
           data = Body(latest.url, tp, 20)
    /\ isLoading = FALSE
    /\ error = NoError
    /\ requests = {}
    /\ last = Step("success", data, 1)
    /\ card = NoCard

NextRange ==
    \/ ClickPrevious
    \/ ClickNext
    \/ \E i \in 1..7 : ClickPage(i)

SpecRange == InitRange /\ [][NextRange]_vars

\* ------------------------------------------------------------------ claims
Completions == {"success", "failure"}

\* C1: a response of a request superseded by a later fetchData call never
\* changes data: every step that processes a response of a request other
\* than the latest leaves data as it was.
C1_StaleSuppressed ==
    [][(last'.op \in Completions /\ last' # last /\ last'.req # latest.id)
          => data' = data]_vars

\* C2: in the state right after a successful response is processed, data is
\* that response's body and error is null.
C2_SuccessClearsError ==
    last.op = "success" => (data = last.arg /\ error = NoError)

\* C3: in the state right after a failed response (non-2xx status, network
\* error) is processed, data is null, error is a message and the error view
\* is the one rendered.
C3_FailureClearsData ==
    last.op = "failure" =>
        (data = Null /\ error # NoError /\ error = last.arg.message
         /\ View = "error")

C3_Witness ==
    /\ last.op = "failure"
    /\ last.arg = StatusError(404)
    /\ \E r \in requests : r.id < last.req

\* C4: a fetchData call sets isLoading, every completion of a request clears
\* it, and isLoading is false whenever no request is in flight.
C4_LoadingFlag ==
    /\ (last.op \notin Completions \cup {"ok", "init"} /\ last.req # 0)
           => isLoading
    /\ last.op \in Completions => ~isLoading
    /\ requests = {} => ~isLoading

C4_Witness ==
    /\ last.op \in Completions
    /\ requests = {}
    /\ latest.id = MaxRequests

\* C5: after handleEndpointChange(e) the active endpoint is e, the page is 1
\* and the search term is empty, and the request issued for the change asks
\* for endpoint e, page 1, with no name parameter.
C5_EndpointChangeResets ==
    last.op = "endpoint" =>
        /\ activeEndpoint = last.arg
        /\ currentPage = 1
        /\ searchTerm = << >>
        /\ last.req # 0 =>
               /\ latest.id = last.req
               /\ latest \in requests
               /\ latest.url = [base |-> BASE_URL, endpoint |-> last.arg,
                                page |-> 1, searchParam |-> << >>]

C5_Witness ==
    /\ last.op = "endpoint"
    /\ last.arg = "episode"
    /\ last.req # 0
    /\ data # Null
    /\ data.url.page > 1

\* C6: after handleSearch(t) the search term is t and the page is 1, the
\* active endpoint is what it was, and the request issued for the change asks
\* for page 1.
C6_SearchResetsPage ==
    [][last'.op = "search" =>
          /\ searchTerm' = last'.arg
          /\ currentPage' = 1
          /\ activeEndpoint' = activeEndpoint
          /\ last'.req # 0 =>
                 /\ latest'.id = last'.req
                 /\ latest' \in requests'
                 /\ latest'.url.page = 1
                 /\ latest'.url.endpoint = activeEndpoint
                 /\ latest'.url.searchParam = SearchParam(last'.arg)]_vars

C6_Witness ==
    /\ last.op = "search"
    /\ last.arg = <<"r", " ">>
    /\ last.req # 0
    /\ data # Null
    /\ data.url.page > 1

\* C7: every request that carries a name parameter asks for the character
\* endpoint, and the search term is empty whenever the active endpoint is
\* location or episode.
C7_SearchOnlyCharacter ==
    /\ \A r \in requests \cup ({latest} \ {Null}) :
           r.url.searchParam # << >> => r.url.endpoint = "character"
    /\ activeEndpoint # "character" => searchTerm = << >>

C7_Witness ==
    /\ activeEndpoint = "location"
    /\ \E r \in requests : r.url.searchParam = <<"&name=", "r", "%", "2", "0">>

\* C8: for totalPages of 1..7 and any current page, the range is the pages
\* 1, 2, ..., totalPages and holds no ellipsis.
C8_FewPages ==
    totalPages <= 7 =>
        /\ paginationRange = [i \in 1..totalPages |-> i]
        /\ \A i \in DOMAIN paginationRange : paginationRange[i] # Ellipsis

C8_Witness ==
    /\ totalPages = 7
    /\ currentPage = 7
    /\ last.op = "page"

\* C9: for totalPages above 7 and a current page of 1..totalPages the range
\* has one of three shapes: 1..5, ellipsis, last (current page <= 4); 1,
\* ellipsis, the last five (current page >= totalPages - 3); 1, ellipsis,
\* current-1..current+1, ellipsis, last (otherwise).
C9_Shape(cp, tp) ==
    IF cp <= 4 THEN <<1, 2, 3, 4, 5, Ellipsis, tp>>
    ELSE IF cp >= tp - 3
         THEN <<1, Ellipsis, tp - 4, tp - 3, tp - 2, tp - 1, tp>>
    ELSE <<1, Ellipsis, cp - 1, cp, cp + 1, Ellipsis, tp>>

C9_ManyPages ==
    /\ (totalPages > 7 /\ currentPage \in 1..totalPages)
           => paginationRange = C9_Shape(currentPage, totalPages)
    /\ PaginationRange(1, 10) = <<1, 2, 3, 4, 5, Ellipsis, 10>>
    /\ PaginationRange(10, 10) = <<1, Ellipsis, 6, 7, 8, 9, 10>>
    /\ PaginationRange(5, 10) = <<1, Ellipsis, 4, 5, 6, Ellipsis, 10>>

C9_Witness ==
    /\ totalPages = MaxTotalPages
    /\ currentPage = MaxTotalPages - 4
    /\ last.op = "next"

\* C10: Try Again is offered only with error set, and the request it issues
\* has the endpoint, page and search term of the most recently issued
\* request; the step changes none of activeEndpoint, currentPage, searchTerm.
C10_RetrySameRequest ==
    [][last'.op = "retry" =>
          /\ error # NoError
          /\ latest # Null
          /\ latest'.id = last'.req
          /\ latest'.id # latest.id
          /\ latest' \in requests'
          /\ latest'.endpoint = latest.endpoint
          /\ latest'.page = latest.page
          /\ latest'.search = latest.search
          /\ latest'.url = latest.url
          /\ activeEndpoint' = activeEndpoint
          /\ currentPage' = currentPage
          /\ searchTerm' = searchTerm]_vars

C10_Witness ==
    /\ last.op = "retry"
    /\ latest.page > 1

UserOps == {"endpoint", "search", "page", "previous", "next"}

InFlightIds == {r.id : r \in requests}

\* C11: no fetchData call is cancelled: a call leaves the set in flight only by
\* its own completion, and every completion writes data (the body on success,
\* null on failure) whether or not a later call was made, so the response that
\* arrives last decides the dataset.
C11_LastResponseWins ==
    [][/\ \A r \in requests :
              r.id \notin {q.id : q \in requests'} =>
                  (last'.op \in Completions /\ last'.req = r.id)
       /\ (last'.op = "success" /\ last' # last) => data' = last'.arg
       /\ (last'.op = "failure" /\ last' # last) => data' = Null]_vars

\* Two overlapping calls, both answered 200, the earlier one last: its body is
\* the dataset left.
C11_Witness ==
    /\ latest # Null
    /\ latest.id = 2
    /\ requests = {}
    /\ error = NoError
    /\ last.op = "success"
    /\ last.req = 1
    /\ data = last.arg
    /\ data.url # latest.url

\* C12: a user action that changes activeEndpoint, currentPage or searchTerm
\* issues exactly one request, for the three values after the action; a user
\* action that changes none of them issues none.
C12_OneRequestPerChange ==
    [][(last'.op \in UserOps /\ last' # last) =>
          IF <<activeEndpoint', currentPage', searchTerm'>>
                 # <<activeEndpoint, currentPage, searchTerm>>
          THEN /\ latest'.id \notin InFlightIds
               /\ latest'.id # latest.id
               /\ requests' = requests \cup {latest'}
               /\ latest' = Request(latest'.id, activeEndpoint',
                                    currentPage', searchTerm')
          ELSE /\ requests' = requests
               /\ latest' = latest]_vars

\* Page 2 was asked for by a click (request 2), loaded, and then the button of
\* the current page was clicked: no request.
C12_Witness ==
    /\ latest # Null
    /\ last.op = "page"
    /\ last.req = 0
    /\ latest.id = 2
    /\ latest.page = 2
    /\ currentPage = 2

\* C13: after a successful response with an empty results list is processed,
\* the no-results view is the one rendered, not the error view.
C13_EmptyIsNoResults ==
    (last.op = "success" /\ last.arg.results = 0) =>
        (View = "empty" /\ error = NoError)

\* C15: for totalPages above 7 and a current page of 1..totalPages the range
\* has 7 markers, starts with page 1, ends with page totalPages, holds the
\* current page, lists its pages in strictly increasing order, and has an
\* ellipsis between two listed pages a < b exactly when b > a + 1.
C15_WellFormed ==
    (totalPages > 7 /\ currentPage \in 1..totalPages) =>
        LET r == paginationRange
            n == Len(r)
        IN  /\ n = 7
            /\ r[1] = 1
            /\ r[n] = totalPages
            /\ \E i \in 1..n : r[i] = currentPage
            /\ \A i, j \in 1..n :
                   (i < j /\ r[i] # Ellipsis /\ r[j] # Ellipsis) => r[i] < r[j]
            /\ \A i \in 1..(n - 1) :
                   (r[i] # Ellipsis /\ r[i + 1] # Ellipsis)
                       => r[i + 1] = r[i] + 1
            /\ \A i \in 1..n :
                   r[i] = Ellipsis =>
                       /\ 1 < i
                       /\ i < n
                       /\ r[i - 1] # Ellipsis
                       /\ r[i + 1] # Ellipsis
                       /\ r[i + 1] > r[i - 1] + 1

C15_Witness ==
    /\ totalPages = 8
    /\ currentPage = 3
    /\ last.op = "previous"

\* C16: isLoading is true in every state in which a request is in flight.
C16_InFlightLoading ==
    requests # {} => isLoading

\* C17: data is null in every state in which error is set.
C17_ErrorMeansNoData ==
    error # NoError => data = Null

\* C18: currentPage is at least 1; with a dataset stored it is at most that
\* dataset's totalPages; a click on Previous, Next or a numbered button
\* leaves it within 1..totalPages.
C18_PageBounds ==
    /\ currentPage >= 1
    /\ data # Null => currentPage <= totalPages
    /\ last.op \in {"page", "previous", "next"}
           => currentPage \in 1..totalPages

\* An error has been set and no response has succeeded since: the last
\* completion was a failure.
ErroredSince ==
    /\ latest # Null
    /\ latest.id > Cardinality(InFlightIds)
    /\ data = Null

\* C19 as claimed: a step from a state with error set leaves activeEndpoint,
\* currentPage and searchTerm as they were, and as long as no response has
\* succeeded since the error they never change again.
C19_InputsFrozenAfterError ==
    [][(error # NoError \/ ErroredSince) =>
          UNCHANGED <<activeEndpoint, currentPage, searchTerm>>]_vars

\* C19 as amended: a step from a state with error set is Try Again or the
\* processing of a response, and it leaves activeEndpoint, currentPage and
\* searchTerm as they were.
C19_ErrorFrame ==
    [][error # NoError =>
          /\ UNCHANGED <<activeEndpoint, currentPage, searchTerm>>
          /\ last'.op \in {"retry", "ok", "success", "failure"}]_vars

\* A response processed with the error view up.
C19_Witness ==
    /\ error # NoError
    /\ last.op = "success"
    /\ currentPage > 1

\* C14: a status that is an upper/lower-case spelling of alive, dead or
\* unknown selects that entry's style; every other status, and a missing one,
\* selects the unknown style.
C14_IsSpelling(s, k) ==
    /\ Len(s) = Len(k)
    /\ \A i \in DOMAIN k : s[i] \in {k[i], UpperChar(k[i])}

C14_StatusLookup ==
    card.statusClass # Unrendered =>
        IF /\ "status" \in DOMAIN card.item
           /\ \E k \in DOMAIN STATUS_STYLES :
                  C14_IsSpelling(card.item.status, k)
        THEN \A k \in DOMAIN STATUS_STYLES :
                 C14_IsSpelling(card.item.status, k)
                     => card.statusClass = STATUS_STYLES[k]
        ELSE card.statusClass
                 = STATUS_STYLES[<<"u", "n", "k", "n", "o", "w", "n">>]

====
